---- MODULE Spec2Model ----
(***************************************************************************)
(* Model of the Hartkey polling coordinator                                *)
(* (custom_components/hartkey/coordinator.py).                             *)
(*                                                                         *)
(* HartkeyDataUpdateCoordinator._async_update_data is a coroutine; every   *)
(* action below is one run of its code between two suspension points       *)
(* (the awaits on the two HTTP exchanges).  The host's                      *)
(* DataUpdateCoordinator calls it, stores a returned value in              *)
(* coordinator.data and leaves coordinator.data alone when it raises; the  *)
(* model follows one invocation at a time.                                 *)
(*                                                                         *)
(* Python values are modelled by records:                                  *)
(*   an id            [kind, val]   kind in none/int/str, val its str()    *)
(*   a device element [shape, id, device_type]                             *)
(*   an event element [shape, device_id, n]   n stands for raised_at       *)
(*   a JSON body      [top, data, field, list]                             *)
(*   a snapshot       [devices, events, ref]  ref is the object identity   *)
(***************************************************************************)
EXTENDS Integers, Sequences, FiniteSets, TLC

VARIABLES
    pc,                    \* position of the coroutine: idle, fetch_devices, fetch_events
    cycle,                 \* number of invocations of _async_update_data so far
    devices,               \* self.devices
    last_successful_data,  \* self._last_successful_data
    data,                  \* coordinator.data, the snapshot consumers read
    outcome,               \* how the last invocation ended
    devResp,               \* history: the device response of the last cycle
    evResp,                \* history: the event response of the last cycle
    evParams,              \* history: device_ids of the event request issued in the last cycle
    unpublished,           \* history: self.devices was set by a cycle that ended without publishing
    entities,              \* the open buttons the button platform has added
    pressPc,               \* position of async_press of each button: idle, posting
    pressLog,              \* what the last async_press logged or raised
    openResp,              \* history: the response the last async_press received
    refresh_requested,     \* coordinator.async_request_refresh() called and not yet served
    fn, fnIn, fnOut        \* one function of the coordinator applied to one input

vars == <<pc, cycle, devices, last_successful_data, data, outcome,
          devResp, evResp, evParams, unpublished, entities, pressPc, pressLog,
          openResp, refresh_requested, fn, fnIn, fnOut>>

cycleVars == <<pc, cycle, devices, last_successful_data, data, outcome,
               devResp, evResp, evParams, unpublished>>

pressVars == <<entities, pressPc, pressLog, openResp>>

buttonVars == <<pressVars, refresh_requested>>

fnVars == <<fn, fnIn, fnOut>>

-----------------------------------------------------------------------------
(* Bounds *)

MaxCycles == 3     \* invocations of _async_update_data in one behaviour
MaxPayload == 2    \* length of the lists in the responses of a cycle
MaxDevices == 5    \* length of the device lists given to the functions
MaxEvents == 5     \* length of the event lists given to the functions
MaxCaps == 2       \* length of the capability lists given to _is_valid_intercom

-----------------------------------------------------------------------------
(* Python values *)

None == [none |-> TRUE]

NoId == [kind |-> "none", val |-> "None"]
IntId(s) == [kind |-> "int", val |-> s]
StrId(s) == [kind |-> "str", val |-> s]

\* bool(x) of an id: None, 0 and "" are falsy
Truthy(id) ==
    /\ id.kind # "none"
    /\ ~(id.kind = "int" /\ id.val = "0")
    /\ ~(id.kind = "str" /\ id.val = "")

\* str(x) of an id
Str(id) == id.val

DEVICE_TYPE_INTERCOM == "intercom"
DEVICE_TYPE_GATE == "gate"

Dev(id, type) == [shape |-> "dict", id |-> id, device_type |-> type]
NotADict == [shape |-> "other", id |-> NoId, device_type |-> "missing"]

Ev(id, n) == [shape |-> "dict", device_id |-> id, n |-> n]
NotAnEvent == [shape |-> "other", device_id |-> NoId, n |-> 0]

SeqsUpTo(S, n) == UNION {[1..k -> S] : k \in 0..n}

EmptyMap == <<>>

-----------------------------------------------------------------------------
(* Results of a call: a returned value or a raised exception *)

Ok(v) == [exc |-> "none", value |-> v]
Raise(e) == [exc |-> e, value |-> None]

-----------------------------------------------------------------------------
(* JSON bodies.  top: the decoded body is a dict, something else, or does    *)
(* not decode; data: body["data"] is a dict, something else, or missing;     *)
(* field: data["devices"] / data["items"] is a list, something else, or      *)
(* missing; list: the elements of that list.                                 *)

Body(top, dat, field, list) == [top |-> top, data |-> dat, field |-> field, list |-> list]

GoodBody(list) == Body("dict", "dict", "list", list)

MalformedBodies ==
    { Body("undecodable", "missing", "missing", <<>>),
      Body("other", "missing", "missing", <<>>),
      Body("dict", "missing", "missing", <<>>),
      Body("dict", "other", "missing", <<>>),
      Body("dict", "dict", "missing", <<>>),
      Body("dict", "dict", "other", <<>>) }

\* an HTTP exchange: it fails in the network layer, times out, or answers
Response(net, status, body) == [net |-> net, status |-> status, body |-> body]

NoResponse == Response("none", 0, Body("other", "missing", "missing", <<>>))

-----------------------------------------------------------------------------
(* _parse_devices *)

\* IsValidDevice testing only that the element carries a device_type
IsValidDevice_any_type(device) ==
    /\ device.shape = "dict"
    /\ device.device_type # "missing"

IsValidDevice(device) ==
    /\ device.shape = "dict"
    /\ device.device_type \in {DEVICE_TYPE_INTERCOM, DEVICE_TYPE_GATE}

\* parse_devices taking a body that is no mapping for an empty device list
parse_devices_tolerant(body) ==
    LET devs == IF body.top = "dict" /\ body.data = "dict" /\ body.field = "list"
                THEN body.list
                ELSE <<>>
    IN  Ok(SelectSeq(devs, IsValidDevice))

\* parse_devices refusing a mapping that carries no device list
parse_devices_strict(body) ==
    IF body.top # "dict" \/ body.data # "dict" \/ body.field # "list"
    THEN Raise("UpdateFailed")
    ELSE Ok(SelectSeq(body.list, IsValidDevice))

parse_devices(body) ==
    IF body.top # "dict"
    THEN Raise("UpdateFailed")
    ELSE LET devs == IF body.data = "dict" /\ body.field = "list"
                     THEN body.list
                     ELSE <<>>
         IN  Ok(SelectSeq(devs, IsValidDevice))

(* _fetch_devices *)

fetch_devices(resp) ==
    IF resp.net # "ok"
    THEN Raise(resp.net)                        \* aiohttp.ClientError, asyncio.TimeoutError
    ELSE IF resp.status = 200
    THEN IF resp.body.top = "undecodable"
         THEN Raise("ValueError")               \* response.json() raises
         ELSE parse_devices(resp.body)
    ELSE Raise("UpdateFailed")                  \* 401 and every other status

-----------------------------------------------------------------------------
(* _parse_events *)

\* the loop of _parse_events using the device id itself as key, so that a
\* number and a string with the same digits get two keys
RECURSIVE group_events_typed_keys(_, _, _)
group_events_typed_keys(items, i, events_by_device) ==
    IF i > Len(items)
    THEN events_by_device
    ELSE LET event == items[i]
             key == IF event.device_id.kind = "int"
                    THEN "int " \o Str(event.device_id)
                    ELSE Str(event.device_id)
         IN  IF event.shape = "dict" /\ Truthy(event.device_id)
             THEN IF key \in DOMAIN events_by_device
                  THEN group_events_typed_keys(items, i + 1,
                         [events_by_device EXCEPT ![key] = Append(@, event)])
                  ELSE group_events_typed_keys(items, i + 1,
                         events_by_device @@ (key :> <<event>>))
             ELSE group_events_typed_keys(items, i + 1, events_by_device)

RECURSIVE group_events(_, _, _)
group_events(items, i, events_by_device) ==
    IF i > Len(items)
    THEN events_by_device
    ELSE LET event == items[i]
             key == Str(event.device_id)
         IN  IF event.shape = "dict" /\ Truthy(event.device_id)
             THEN IF key \in DOMAIN events_by_device
                  THEN group_events(items, i + 1,
                         [events_by_device EXCEPT ![key] = Append(@, event)])
                  ELSE group_events(items, i + 1,
                         events_by_device @@ (key :> <<event>>))
             ELSE group_events(items, i + 1, events_by_device)

\* the loop of _parse_events assigning [event] instead of appending
RECURSIVE group_events_last_wins(_, _, _)
group_events_last_wins(items, i, events_by_device) ==
    IF i > Len(items)
    THEN events_by_device
    ELSE LET event == items[i]
             key == Str(event.device_id)
         IN  IF event.shape = "dict" /\ Truthy(event.device_id)
             THEN IF key \in DOMAIN events_by_device
                  THEN group_events_last_wins(items, i + 1,
                         [events_by_device EXCEPT ![key] = <<event>>])
                  ELSE group_events_last_wins(items, i + 1,
                         events_by_device @@ (key :> <<event>>))
             ELSE group_events_last_wins(items, i + 1, events_by_device)

parse_events_last_wins(body) ==
    IF body.top # "dict"
    THEN EmptyMap
    ELSE LET events_list == IF body.data = "dict" /\ body.field = "list"
                            THEN body.list
                            ELSE <<>>
         IN  group_events_last_wins(events_list, 1, EmptyMap)

parse_events(body) ==
    IF body.top # "dict"
    THEN EmptyMap
    ELSE LET events_list == IF body.data = "dict" /\ body.field = "list"
                            THEN body.list
                            ELSE <<>>
         IN  group_events(events_list, 1, EmptyMap)

(* _fetch_events, up to the request: the device ids to query, None when    *)
(* the function returns {} without calling the network                     *)

\* HasQueryableId without the test of the id
HasQueryableId_no_id_check(device) ==
    device.device_type \in {DEVICE_TYPE_INTERCOM, DEVICE_TYPE_GATE}

HasQueryableId(device) ==
    /\ Truthy(device.id)
    /\ device.device_type \in {DEVICE_TYPE_INTERCOM, DEVICE_TYPE_GATE}

device_ids(devs) ==
    LET sel == SelectSeq(devs, HasQueryableId)
    IN  [i \in 1..Len(sel) |-> Str(sel[i].id)]

fetch_events_request(devs) ==
    IF devs = <<>>
    THEN None
    ELSE IF device_ids(devs) = <<>>
    THEN None
    ELSE [device_ids |-> device_ids(devs)]

(* _fetch_events, from the response on *)

\* fetch_events_response falling back to the events of the retained snapshot
fetch_events_response_keeps_old(resp) ==
    IF resp.net = "ok" /\ resp.status = 200 /\ resp.body.top # "undecodable"
    THEN Ok(parse_events(resp.body))
    ELSE IF last_successful_data # None
    THEN Ok(last_successful_data.events)
    ELSE Ok(EmptyMap)

\* fetch_events_response without its except asyncio.TimeoutError clause
fetch_events_response_timeout_escapes(resp) ==
    IF resp.net = "TimeoutError"
    THEN Raise("TimeoutError")
    ELSE IF resp.net = "ok" /\ resp.status = 200 /\ resp.body.top # "undecodable"
    THEN Ok(parse_events(resp.body))
    ELSE Ok(EmptyMap)

\* fetch_events_response keeping only the events of the devices of
\* self.devices
fetch_events_response_known_only(resp) ==
    IF resp.net = "ok" /\ resp.status = 200 /\ resp.body.top # "undecodable"
    THEN LET known == {Str(devices[i].id) : i \in DOMAIN devices}
             events == parse_events(resp.body)
         IN  Ok([k \in DOMAIN events \cap known |-> events[k]])
    ELSE Ok(EmptyMap)

fetch_events_response(resp) ==
    IF resp.net # "ok"
    THEN Ok(EmptyMap)                           \* except TimeoutError / except Exception
    ELSE IF resp.status = 200
    THEN IF resp.body.top = "undecodable"
         THEN Ok(EmptyMap)                      \* response.json() raises, except Exception
         ELSE Ok(parse_events(resp.body))
    ELSE Ok(EmptyMap)                           \* 400 and every other status

-----------------------------------------------------------------------------
(* Inputs *)

\* elements of the device list of a response in a cycle
DevicePool ==
    { Dev(StrId("1"), DEVICE_TYPE_INTERCOM),
      Dev(NoId, DEVICE_TYPE_GATE),
      Dev(StrId("3"), "camera") }

\* elements of the event list of a response in a cycle
EventPool ==
    { Ev(StrId("1"), 1),
      Ev(IntId("9"), 2),
      Ev(NoId, 3) }

Failures ==
    { Response("ClientError", 0, Body("other", "missing", "missing", <<>>)),
      Response("TimeoutError", 0, Body("other", "missing", "missing", <<>>)) }

Answers(statuses, bodies) ==
    { Response("ok", st, b) : st \in statuses, b \in bodies }

DeviceResponses ==
    Failures
    \cup Answers({401, 500}, {Body("other", "missing", "missing", <<>>)})
    \cup Answers({200}, MalformedBodies)
    \cup Answers({200}, {GoodBody(l) : l \in SeqsUpTo(DevicePool, MaxPayload)})

EventResponses ==
    Failures
    \cup Answers({400, 500}, {Body("dict", "missing", "missing", <<>>),
                              Body("undecodable", "missing", "missing", <<>>)})
    \cup Answers({200}, MalformedBodies)
    \cup Answers({200}, {GoodBody(l) : l \in SeqsUpTo(EventPool, MaxPayload)})

-----------------------------------------------------------------------------
(* button.py: the open buttons *)

\* the device ids a button can carry (self.device_id = device.get('id'))
ButtonIds == {StrId("1"), NoId}

\* what async_press logs, or the exception it raises
Log(b, level, event, status, text) ==
    [button |-> b, level |-> level, event |-> event, status |-> status, text |-> text]

NoLog == Log(NoId, "none", "none", 0, "")

-----------------------------------------------------------------------------
(* _async_update_data *)

\* except_handler without the fallback of its last clause: an exception that
\* is neither a ClientError nor a TimeoutError always ends the cycle in failure
except_handler_no_catch_all(exc, last) ==
    IF exc \in {"ClientError", "TimeoutError"}
    THEN IF last # None THEN Ok(last) ELSE Raise("UpdateFailed")
    ELSE Raise("UpdateFailed")

\* except_handler returning an empty snapshot instead of raising
except_handler_returns_empty(exc, last) ==
    IF last # None
    THEN Ok(last)
    ELSE Ok([devices |-> <<>>, events |-> EmptyMap, ref |-> 0])

\* the three except clauses: each returns the retained snapshot when there
\* is one and raises UpdateFailed otherwise.  A retained snapshot is a dict
\* of two keys, so it is truthy whenever it is not None.
except_handler(exc, last) ==
    IF exc = "ClientError"
    THEN IF last # None THEN Ok(last) ELSE Raise("UpdateFailed")
    ELSE IF exc = "TimeoutError"
    THEN IF last # None THEN Ok(last) ELSE Raise("UpdateFailed")
    ELSE IF last # None THEN Ok(last) ELSE Raise("UpdateFailed")

\* the coroutine ends: the caller stores a returned value in coordinator.data
\* and keeps coordinator.data when it raises
Finish(r) ==
    /\ pc' = "idle"
    /\ outcome' = IF r.exc = "none" THEN "returned" ELSE r.exc
    /\ data' = IF r.exc = "none" THEN r.value ELSE data

\* Publish keeping the snapshot retained first
Publish_keeps_first(devs, events) ==
    LET result == [devices |-> devs, events |-> events, ref |-> cycle]
    IN  /\ last_successful_data' = IF last_successful_data = None
                                   THEN result
                                   ELSE last_successful_data
        /\ unpublished' = FALSE
        /\ Finish(Ok(result))

\* result = {"devices": devices, "events": events};
\* self._last_successful_data = result; return result
Publish(devs, events) ==
    LET result == [devices |-> devs, events |-> events, ref |-> cycle]
    IN  /\ last_successful_data' = result
        /\ unpublished' = FALSE
        /\ Finish(Ok(result))

\* AfterDevices retaining the devices as a snapshot before the events arrive
AfterDevices_stores_early(devs) ==
    /\ devices' = devs
    /\ IF fetch_events_request(devs) = None
       THEN /\ Publish(devs, EmptyMap)
            /\ UNCHANGED evParams
       ELSE /\ pc' = "fetch_events"
            /\ evParams' = fetch_events_request(devs)
            /\ last_successful_data' = [devices |-> devs, events |-> EmptyMap, ref |-> cycle]
            /\ UNCHANGED <<data, outcome, unpublished>>

\* AfterDevices building the event request from the device list of the
\* cycle before
AfterDevices_queries_previous(devs) ==
    /\ devices' = devs
    /\ IF fetch_events_request(devices) = None
       THEN /\ Publish(devs, EmptyMap)
            /\ UNCHANGED evParams
       ELSE /\ pc' = "fetch_events"
            /\ evParams' = fetch_events_request(devices)
            /\ UNCHANGED <<last_successful_data, data, outcome, unpublished>>

\* AfterDevices assigning self.devices only when the cycle publishes at once
AfterDevices_assigns_late(devs) ==
    /\ IF fetch_events_request(devs) = None
       THEN /\ devices' = devs
            /\ Publish(devs, EmptyMap)
            /\ UNCHANGED evParams
       ELSE /\ pc' = "fetch_events"
            /\ evParams' = fetch_events_request(devs)
            /\ UNCHANGED <<devices, last_successful_data, data, outcome, unpublished>>

\* self.devices = devices; events = await self._fetch_events(headers, devices)
\* up to the first suspension point of _fetch_events
AfterDevices(devs) ==
    /\ devices' = devs
    /\ IF fetch_events_request(devs) = None
       THEN /\ Publish(devs, EmptyMap)
            /\ UNCHANGED evParams
       ELSE /\ pc' = "fetch_events"
            /\ evParams' = fetch_events_request(devs)
            /\ UNCHANGED <<last_successful_data, data, outcome, unpublished>>

StartCycle ==
    /\ pc = "idle"
    /\ cycle < MaxCycles
    /\ pc' = "fetch_devices"
    /\ cycle' = cycle + 1
    /\ outcome' = "running"
    /\ devResp' = NoResponse
    /\ evResp' = NoResponse
    /\ evParams' = None
    /\ refresh_requested' = FALSE
    /\ UNCHANGED <<devices, last_successful_data, data, unpublished, pressVars, fnVars>>

DevicesResponse(resp) ==
    /\ pc = "fetch_devices"
    /\ devResp' = resp
    /\ IF fetch_devices(resp).exc = "none"
       THEN AfterDevices(fetch_devices(resp).value)
       ELSE /\ Finish(except_handler(fetch_devices(resp).exc, last_successful_data))
            /\ UNCHANGED <<devices, last_successful_data, evParams, unpublished>>
    /\ UNCHANGED <<cycle, evResp, buttonVars, fnVars>>

\* EventsResponse asking again when the event request is answered with a
\* status other than 200
EventsResponse_retries(resp) ==
    /\ pc = "fetch_events"
    /\ evResp' = resp
    /\ IF resp.net = "ok" /\ resp.status # 200
       THEN UNCHANGED <<pc, outcome, data, last_successful_data, unpublished>>
       ELSE IF fetch_events_response(resp).exc = "none"
       THEN Publish(devices, fetch_events_response(resp).value)
       ELSE /\ Finish(except_handler(fetch_events_response(resp).exc, last_successful_data))
            /\ unpublished' = TRUE
            /\ UNCHANGED last_successful_data
    /\ UNCHANGED <<cycle, devices, devResp, evParams, buttonVars, fnVars>>

EventsResponse(resp) ==
    /\ pc = "fetch_events"
    /\ evResp' = resp
    /\ IF fetch_events_response(resp).exc = "none"
       THEN Publish(devices, fetch_events_response(resp).value)
       ELSE /\ Finish(except_handler(fetch_events_response(resp).exc, last_successful_data))
            /\ unpublished' = TRUE
            /\ UNCHANGED last_successful_data
    /\ UNCHANGED <<cycle, devices, devResp, evParams, buttonVars, fnVars>>

\* Cancel dropping coordinator.data
Cancel_drops_data ==
    /\ pc \in {"fetch_devices", "fetch_events"}
    /\ pc' = "idle"
    /\ outcome' = "CancelledError"
    /\ data' = None
    /\ unpublished' = (unpublished \/ pc = "fetch_events")
    /\ UNCHANGED <<cycle, devices, last_successful_data, devResp, evResp,
                   evParams, buttonVars, fnVars>>

\* the task running the coroutine is cancelled while it awaits a response:
\* CancelledError is not an Exception, no except clause catches it
Cancel ==
    /\ pc \in {"fetch_devices", "fetch_events"}
    /\ pc' = "idle"
    /\ outcome' = "CancelledError"
    /\ unpublished' = (unpublished \/ pc = "fetch_events")
    /\ UNCHANGED <<cycle, devices, last_successful_data, data, devResp, evResp,
                   evParams, buttonVars, fnVars>>

CycleInit ==
    /\ pc = "idle"
    /\ cycle = 0
    /\ devices = <<>>
    /\ last_successful_data = None
    /\ data = None
    /\ outcome = "none"
    /\ devResp = NoResponse
    /\ evResp = NoResponse
    /\ evParams = None
    /\ unpublished = FALSE

\* no button platform set up, no press made
ButtonInit ==
    /\ entities = [registered |-> FALSE, set_up |-> FALSE, ids |-> {}]
    /\ pressPc = [b \in ButtonIds |-> "idle"]
    /\ pressLog = NoLog
    /\ openResp = NoResponse
    /\ refresh_requested = FALSE

Init ==
    /\ CycleInit
    /\ ButtonInit
    /\ fn = "none"
    /\ fnIn = None
    /\ fnOut = None

Next ==
    \/ StartCycle
    \/ \E resp \in DeviceResponses : DevicesResponse(resp)
    \/ \E resp \in EventResponses : EventsResponse(resp)
    \/ Cancel

Spec == Init /\ [][Next]_vars

\* each of the two exchanges runs under async_timeout.timeout(10): the await
\* of a running cycle is resumed, by a response, a network error or the
\* timeout, unless the task is cancelled first
SpecLive ==
    /\ Init
    /\ [][Next]_vars
    /\ WF_vars(\E resp \in DeviceResponses : DevicesResponse(resp))
    /\ WF_vars(\E resp \in EventResponses : EventsResponse(resp))

-----------------------------------------------------------------------------
(* The functions of the coordinator, each applied to one input *)

\* _fetch_events as a whole: whether it calls the network, and what it returns
fetch_events(devs, resp) ==
    IF fetch_events_request(devs) = None
    THEN [called |-> FALSE, result |-> Ok(EmptyMap)]
    ELSE [called |-> TRUE, result |-> fetch_events_response(resp)]

\* button.py: a capability of a device, with its fields as strings; "missing"
\* is an absent key, "1" a value that is truthy without being True
Cap(name, setup, enabled) == [name |-> name, setup |-> setup, enabled |-> enabled]

\* a device of the snapshot with its capabilities (an absent "capabilities"
\* key reads as the empty list)
DevC(id, type, caps) ==
    [shape |-> "dict", id |-> id, device_type |-> type, capabilities |-> caps]

\* _is_valid_intercom accepting every truthy value of "setup"
is_valid_intercom_truthy_setup(device) ==
    IF device.device_type \notin {DEVICE_TYPE_INTERCOM, DEVICE_TYPE_GATE}
    THEN FALSE
    ELSE \E i \in DOMAIN device.capabilities :
            /\ device.capabilities[i].name = "open_door"
            /\ device.capabilities[i].setup \in {"True", "1"}

\* _is_valid_intercom: capability.get('name') == 'open_door' and
\* capability.get('setup') is True, for some capability
is_valid_intercom(device) ==
    IF device.device_type \notin {DEVICE_TYPE_INTERCOM, DEVICE_TYPE_GATE}
    THEN FALSE
    ELSE \E i \in DOMAIN device.capabilities :
            /\ device.capabilities[i].name = "open_door"
            /\ device.capabilities[i].setup = "True"

CapPool ==
    { Cap(n, st, en) : n \in {"open_door", "call"},
                       st \in {"True", "False", "1", "missing"},
                       en \in {"True", "False"} }

FnDevicePool ==
    { Dev(StrId("1"), DEVICE_TYPE_INTERCOM),
      Dev(IntId("2"), DEVICE_TYPE_GATE),
      Dev(NoId, DEVICE_TYPE_INTERCOM),
      Dev(IntId("0"), DEVICE_TYPE_GATE),
      Dev(StrId("3"), "camera"),
      Dev(StrId("4"), "missing") }

FnEventPool ==
    { Ev(StrId("1"), 1),
      Ev(IntId("1"), 2),
      Ev(StrId("2"), 3),
      Ev(StrId("3"), 4),
      Ev(NoId, 5),
      Ev(IntId("0"), 6),
      NotAnEvent }

FnInputs(f) ==
    IF f = "parse_devices"
    THEN MalformedBodies
         \cup {GoodBody(l) : l \in SeqsUpTo(FnDevicePool \cup {NotADict}, MaxDevices)}
    ELSE IF f = "parse_events"
    THEN MalformedBodies
         \cup {GoodBody(l) : l \in SeqsUpTo(FnEventPool, MaxEvents)}
    ELSE IF f = "is_valid_intercom"
    THEN {DevC(StrId("1"), t, caps) :
            t \in {DEVICE_TYPE_INTERCOM, DEVICE_TYPE_GATE, "camera"},
            caps \in SeqsUpTo(CapPool, MaxCaps)}
    ELSE {[devices |-> l, resp |-> r] :
            l \in SeqsUpTo(FnDevicePool, MaxDevices),
            r \in {Response("ok", 200, GoodBody(<<Ev(StrId("1"), 1)>>)),
                   Response("TimeoutError", 0, Body("other", "missing", "missing", <<>>))}}

Applied(v) == [out |-> v]

FnInit ==
    /\ CycleInit
    /\ ButtonInit
    /\ fn \in {"parse_devices", "parse_events", "fetch_events", "is_valid_intercom"}
    /\ fnIn \in FnInputs(fn)
    /\ fnOut = None

ApplyParseDevices ==
    /\ fn = "parse_devices"
    /\ fnOut = None
    /\ fnOut' = Applied(parse_devices(fnIn))
    /\ UNCHANGED <<fn, fnIn, cycleVars, buttonVars>>

ApplyParseEvents ==
    /\ fn = "parse_events"
    /\ fnOut = None
    /\ fnOut' = Applied(parse_events(fnIn))
    /\ UNCHANGED <<fn, fnIn, cycleVars, buttonVars>>

ApplyFetchEvents ==
    /\ fn = "fetch_events"
    /\ fnOut = None
    /\ fnOut' = Applied(fetch_events(fnIn.devices, fnIn.resp))
    /\ UNCHANGED <<fn, fnIn, cycleVars, buttonVars>>

ApplyIsValidIntercom ==
    /\ fn = "is_valid_intercom"
    /\ fnOut = None
    /\ fnOut' = Applied(is_valid_intercom(fnIn))
    /\ UNCHANGED <<fn, fnIn, cycleVars, buttonVars>>

FnNext ==
    \/ ApplyParseDevices
    \/ ApplyParseEvents
    \/ ApplyFetchEvents
    \/ ApplyIsValidIntercom

SpecFn == FnInit /\ [][FnNext]_vars

-----------------------------------------------------------------------------
(* button.py: the button platform and async_press *)

\* HartkeyOpenButton.available
available(b) == b.kind # "none" /\ data # None

\* async_setup_entry (button.py): one button for every device of
\* coordinator.data that _is_valid_intercom accepts; no button when there
\* is no data or no device
button_entities ==
    IF data = None
    THEN {}
    ELSE {data.devices[i].id : i \in {j \in DOMAIN data.devices :
                                         is_valid_intercom(data.devices[j])}}

\* register_coordinator not waiting for the outcome of the first refresh
register_coordinator_before_refresh ==
    /\ ~entities.registered
    /\ pc = "idle" /\ cycle <= 1
    /\ entities' = [entities EXCEPT !.registered = TRUE]
    /\ UNCHANGED <<pressPc, pressLog, openResp, refresh_requested, cycleVars, fnVars>>

\* __init__.async_setup_entry after await coordinator.async_config_entry_first_refresh():
\* hass.data[DOMAIN][entry.entry_id] = coordinator.  The host's first refresh
\* runs one cycle and raises ConfigEntryNotReady when that cycle raised, so
\* the assignment is reached only when the first cycle returned.
register_coordinator ==
    /\ ~entities.registered
    /\ pc = "idle" /\ cycle = 1 /\ outcome = "returned"
    /\ entities' = [entities EXCEPT !.registered = TRUE]
    /\ UNCHANGED <<pressPc, pressLog, openResp, refresh_requested, cycleVars, fnVars>>

\* __init__.async_setup_entry forwards the entry to the platforms, and the
\* button platform looks its coordinator up in hass.data[DOMAIN]
button_setup_entry ==
    /\ entities.registered
    /\ ~entities.set_up
    /\ pc = "idle"
    /\ entities' = [entities EXCEPT !.set_up = TRUE, !.ids = button_entities]
    /\ UNCHANGED <<pressPc, pressLog, openResp, refresh_requested, cycleVars, fnVars>>

\* async_press up to the POST: without a device id it logs and returns
PressStart(b) ==
    /\ b \in entities.ids
    /\ pressPc[b] = "idle"
    /\ IF ~Truthy(b)
       THEN /\ pressLog' = Log(b, "error", "missing_id", 0, "")
            /\ UNCHANGED pressPc
       ELSE /\ pressPc' = [pressPc EXCEPT ![b] = "posting"]
            /\ UNCHANGED pressLog
    /\ UNCHANGED <<entities, openResp, refresh_requested, cycleVars, fnVars>>

\* press_outcome requesting a refresh whatever the status
press_outcome_refreshes_always(b, resp) ==
    IF resp.net = "ok"
    THEN IF resp.status = 200
         THEN [log |-> Log(b, "info", "sent", 200, ""), refresh |-> TRUE]
         ELSE [log |-> Log(b, "error", "http_error", resp.status, resp.body),
               refresh |-> TRUE]
    ELSE IF resp.net = "ClientError"
    THEN [log |-> Log(b, "error", "client_error", 0, ""), refresh |-> FALSE]
    ELSE [log |-> Log(b, "raise", "NameError", 0, ""), refresh |-> FALSE]

\* press_outcome without the refresh request after a 200
press_outcome_never_refreshes(b, resp) ==
    IF resp.net = "ok"
    THEN IF resp.status = 200
         THEN [log |-> Log(b, "info", "sent", 200, ""), refresh |-> FALSE]
         ELSE [log |-> Log(b, "error", "http_error", resp.status, resp.body),
               refresh |-> FALSE]
    ELSE IF resp.net = "ClientError"
    THEN [log |-> Log(b, "error", "client_error", 0, ""), refresh |-> FALSE]
    ELSE [log |-> Log(b, "raise", "NameError", 0, ""), refresh |-> FALSE]

\* async_press from the response on: what it logs or raises, and whether it
\* calls coordinator.async_request_refresh().  A 200 is logged and followed
\* by the refresh request; any other status is logged as an error with the
\* status and the body text; a ClientError is logged as an error; any other
\* exception reaches "except asyncio.TimeoutError", which raises NameError
\* because button.py does not import asyncio.
press_outcome(b, resp) ==
    IF resp.net = "ok"
    THEN IF resp.status = 200
         THEN [log |-> Log(b, "info", "sent", 200, ""), refresh |-> TRUE]
         ELSE [log |-> Log(b, "error", "http_error", resp.status, resp.body),
               refresh |-> FALSE]
    ELSE IF resp.net = "ClientError"
    THEN [log |-> Log(b, "error", "client_error", 0, ""), refresh |-> FALSE]
    ELSE [log |-> Log(b, "raise", "NameError", 0, ""), refresh |-> FALSE]

PressResponse(b, resp) ==
    /\ pressPc[b] = "posting"
    /\ pressPc' = [pressPc EXCEPT ![b] = "idle"]
    /\ openResp' = resp
    /\ pressLog' = press_outcome(b, resp).log
    /\ refresh_requested' = (refresh_requested \/ press_outcome(b, resp).refresh)
    /\ UNCHANGED <<entities, cycleVars, fnVars>>

\* outcomes of the POST of API_URL_OPEN; the body is the response text
OpenResponses ==
    { Response("ClientError", 0, ""), Response("TimeoutError", 0, "") }
    \cup { Response("ok", st, text) : st \in {200, 401, 500}, text \in {"", "denied"} }

\* responses of the cycles that run beside the buttons
PressDeviceResponses ==
    { Response("ClientError", 0, Body("other", "missing", "missing", <<>>)),
      Response("TimeoutError", 0, Body("other", "missing", "missing", <<>>)),
      Response("ok", 401, Body("other", "missing", "missing", <<>>)),
      Response("ok", 200, Body("other", "missing", "missing", <<>>)),
      Response("ok", 200, GoodBody(<<>>)),
      Response("ok", 200, GoodBody(
          <<DevC(StrId("1"), DEVICE_TYPE_INTERCOM, <<Cap("open_door", "True", "True")>>),
            DevC(NoId, DEVICE_TYPE_GATE, <<Cap("open_door", "True", "False")>>),
            DevC(StrId("2"), DEVICE_TYPE_GATE, <<Cap("open_door", "False", "True")>>)>>)) }

PressEventResponses ==
    { Response("TimeoutError", 0, Body("other", "missing", "missing", <<>>)),
      Response("ok", 200, GoodBody(<<Ev(StrId("1"), 1)>>)) }

PressNext ==
    \/ StartCycle
    \/ \E resp \in PressDeviceResponses : DevicesResponse(resp)
    \/ \E resp \in PressEventResponses : EventsResponse(resp)
    \/ Cancel
    \/ register_coordinator
    \/ button_setup_entry
    \/ \E b \in ButtonIds : PressStart(b)
    \/ \E b \in ButtonIds, resp \in OpenResponses : PressResponse(b, resp)

SpecPress == Init /\ [][PressNext]_vars

-----------------------------------------------------------------------------
(* Vocabulary of the properties *)

\* the device exchange of a cycle ended in a hard failure: a network error, a
\* timeout, a status other than 200, or a body that is no mapping
DeviceFetchHardFails(resp) ==
    \/ resp.net \in {"ClientError", "TimeoutError"}
    \/ resp.net = "ok" /\ resp.status # 200
    \/ resp.net = "ok" /\ resp.status = 200 /\ resp.body.top # "dict"

DeviceFetchSucceeds(resp) ==
    resp.net = "ok" /\ resp.status = 200 /\ resp.body.top = "dict"

\* the event exchange answered 200 with a mapping
EventFetchWellFormed(resp) ==
    resp.net = "ok" /\ resp.status = 200 /\ resp.body.top = "dict"

\* a step in which the device exchange of the running cycle ends
DeviceStep == pc = "fetch_devices" /\ pc' # "fetch_devices" /\ outcome' # "CancelledError"

\* the elements of seq, as a set
Elements(seq) == {seq[i] : i \in DOMAIN seq}

\* the events of a mapping from device id to event sequence, as a set
EventsIn(map) == UNION {Elements(map[k]) : k \in DOMAIN map}

-----------------------------------------------------------------------------
(* C1: a cycle whose device fetch hard-fails while a snapshot is retained   *)
(* ends without an error and leaves as current snapshot the very snapshot  *)
(* that was current before the cycle: starting the cycle changes neither   *)
(* coordinator.data nor the retained snapshot, and the step in which the   *)
(* device fetch fails returns the retained snapshot itself.                *)
C1_FallbackRepublishes ==
    [][ /\ (pc = "idle" /\ pc' = "fetch_devices")
            => data' = data /\ last_successful_data' = last_successful_data
        /\ (DeviceStep /\ DeviceFetchHardFails(devResp') /\ last_successful_data # None)
            => /\ pc' = "idle"
               /\ outcome' = "returned"
               /\ data' = data
               /\ data' = last_successful_data
               /\ last_successful_data' = last_successful_data ]_vars

C1_Witness ==
    /\ pc = "idle"
    /\ outcome = "returned"
    /\ devResp.net = "ok" /\ devResp.status = 500
    /\ data # None
    /\ data.ref < cycle
    /\ data.devices # <<>>

(* C2: a cycle whose device fetch hard-fails while no snapshot is retained *)
(* reports UpdateFailed and leaves coordinator.data and the retained       *)
(* snapshot undefined, however many such cycles have run.                  *)
C2_FirstFailureSurfaces ==
    [][ (DeviceStep /\ DeviceFetchHardFails(devResp') /\ last_successful_data = None)
            => /\ pc' = "idle"
               /\ outcome' = "UpdateFailed"
               /\ data' = None
               /\ last_successful_data' = None ]_vars

C2_Witness ==
    /\ pc = "idle"
    /\ cycle >= 2
    /\ outcome = "UpdateFailed"
    /\ devResp.net = "TimeoutError"
    /\ data = None
    /\ last_successful_data = None

(* C3: whenever coordinator.data changes, the new snapshot is built from   *)
(* the two responses of the cycle that publishes it: it is a new object,   *)
(* every device in it is in the device response of this cycle and every    *)
(* event in it is in the event response of this cycle (none when this      *)
(* cycle got no well-formed event response).  Otherwise coordinator.data   *)
(* is the snapshot published before.                                       *)
C3_SnapshotFromOneCycle ==
    [][ data' # data
            => /\ data'.ref = cycle
               /\ DeviceFetchSucceeds(devResp')
               /\ Elements(data'.devices) \subseteq Elements(devResp'.body.list)
               /\ IF EventFetchWellFormed(evResp')
                  THEN EventsIn(data'.events) \subseteq Elements(evResp'.body.list)
                  ELSE data'.events = EmptyMap ]_vars

C3_Witness ==
    /\ pc = "idle"
    /\ outcome = "returned"
    /\ cycle >= 2
    /\ data.ref = cycle
    /\ evResp.net = "TimeoutError"
    /\ data.events = EmptyMap
    /\ data.devices # <<>>

(* C4: when the device fetch of a cycle succeeds and the cycle is not      *)
(* cancelled, the cycle returns a new snapshot holding its devices, which  *)
(* is also the retained snapshot; when the event exchange was anything     *)
(* but a 200 with a mapping, the events of that snapshot are empty.        *)
C4_EventFailureAbsorbed ==
    (pc = "idle" /\ DeviceFetchSucceeds(devResp) /\ outcome # "CancelledError")
        => /\ outcome = "returned"
           /\ data # None
           /\ data.ref = cycle
           /\ data.devices = devices
           /\ last_successful_data = data
           /\ (~EventFetchWellFormed(evResp) => data.events = EmptyMap)

C4_Witness ==
    /\ pc = "idle"
    /\ outcome = "returned"
    /\ DeviceFetchSucceeds(devResp)
    /\ evParams # None
    /\ evResp.net = "ok" /\ evResp.status = 400
    /\ data.events = EmptyMap
    /\ data.devices # <<>>
    /\ last_successful_data = data

(* C5: a cycle whose device fetch is answered 401 ends in a failure        *)
(* reported to the caller, whether or not a snapshot is retained.          *)
C5_AuthFailureSurfaces ==
    (pc = "idle" /\ devResp.net = "ok" /\ devResp.status = 401
                 /\ outcome # "CancelledError")
        => outcome = "UpdateFailed"

(* C7: a cycle that is cancelled while it awaits the device or the event   *)
(* response leaves coordinator.data and the retained snapshot as they      *)
(* were when it started: no step that starts a cycle, keeps it running or  *)
(* cancels it changes either, and the retained snapshot is replaced only   *)
(* in the step that ends a cycle, by a whole new snapshot of that cycle    *)
(* (after the event response whenever an event request was issued).        *)
C7_CancelLeavesSnapshot ==
    [][ /\ (pc' # "idle" \/ outcome' = "CancelledError")
            => data' = data /\ last_successful_data' = last_successful_data
        /\ last_successful_data' # last_successful_data
            => /\ pc # "idle" /\ pc' = "idle"
               /\ outcome' = "returned"
               /\ last_successful_data'.ref = cycle
               /\ last_successful_data'.devices = devices'
               /\ data' = last_successful_data'
               /\ DeviceFetchSucceeds(devResp')
               /\ evParams' # None => (pc = "fetch_events" /\ evResp' # NoResponse) ]_vars

C7_Witness ==
    /\ pc = "idle"
    /\ outcome = "CancelledError"
    /\ evParams # None
    /\ evResp = NoResponse
    /\ last_successful_data # None
    /\ data = last_successful_data
    /\ last_successful_data.ref < cycle
    /\ devices # last_successful_data.devices

-----------------------------------------------------------------------------
(* Vocabulary of the properties of the functions *)

\* the positions of list whose element satisfies Test
Positions(list, Test(_)) == {i \in DOMAIN list : Test(list[i])}

\* out holds exactly the elements of list at the positions in P, in the
\* order of list: the element at position i of P is the one at the place of
\* out given by the number of positions of P up to i
IsSubsequenceAt(out, list, P) ==
    /\ Len(out) = Cardinality(P)
    /\ \A i \in P : out[Cardinality({j \in P : j <= i})] = list[i]

IsIntercomOrGate(device) ==
    /\ device.shape = "dict"
    /\ device.device_type \in {"intercom", "gate"}

\* a body whose data.devices / data.items is a list
HasList(body) == body.top = "dict" /\ body.data = "dict" /\ body.field = "list"

(* C8: for a payload with a device list, _parse_devices returns exactly    *)
(* the elements of that list that are mappings with device_type intercom   *)
(* or gate, in their original order.                                       *)
C8_ParseDevicesFilters ==
    (fn = "parse_devices" /\ fnOut # None /\ HasList(fnIn))
        => /\ fnOut.out.exc = "none"
           /\ IsSubsequenceAt(fnOut.out.value, fnIn.list,
                              Positions(fnIn.list, IsIntercomOrGate))

C8_Witness ==
    /\ fn = "parse_devices"
    /\ fnOut # None
    /\ HasList(fnIn)
    /\ Len(fnIn.list) = 5
    /\ Cardinality(Positions(fnIn.list, IsIntercomOrGate)) = 3
    /\ Len(fnOut.out.value) = 3
    /\ fnIn.list[1].device_type = "camera"
    /\ fnIn.list[3].shape = "other"
    /\ fnOut.out.value[1] # fnOut.out.value[2]

(* C9: _fetch_events calls the network not at all and returns the empty    *)
(* mapping when its device list is empty or holds no device with both a    *)
(* non-empty id and device_type intercom or gate.                          *)
C9_NoIdsNoCall ==
    (fn = "fetch_events" /\ fnOut # None
        /\ \A i \in DOMAIN fnIn.devices :
              ~(Truthy(fnIn.devices[i].id) /\ IsIntercomOrGate(fnIn.devices[i])))
        => /\ ~fnOut.out.called
           /\ fnOut.out.result = Ok(EmptyMap)

C9_Witness ==
    /\ fn = "fetch_events"
    /\ fnOut # None
    /\ Len(fnIn.devices) = 3
    /\ fnIn.devices[1] = Dev(NoId, "intercom")
    /\ fnIn.devices[2] = Dev(StrId("3"), "camera")
    /\ fnIn.devices[3] = Dev(IntId("0"), "gate")
    /\ fnIn.resp.net = "ok"
    /\ ~fnOut.out.called
    /\ fnOut.out.result = Ok(EmptyMap)

\* a list of events that are all mappings with a non-empty device_id
IsEvent(event) == event.shape = "dict" /\ Truthy(event.device_id)

WellFormedEvents(body) ==
    HasList(body) /\ \A i \in DOMAIN body.list : IsEvent(body.list[i])

(* C10: for a payload whose events are all mappings with a device id,      *)
(* _parse_events returns a mapping whose keys are exactly the device ids   *)
(* (as strings) of the events, each key holding exactly the events of      *)
(* that device id in the order of the payload.                             *)
C10_ParseEventsGroups ==
    (fn = "parse_events" /\ fnOut # None /\ WellFormedEvents(fnIn))
        => /\ DOMAIN fnOut.out = {fnIn.list[i].device_id.val : i \in DOMAIN fnIn.list}
           /\ \A k \in DOMAIN fnOut.out :
                 IsSubsequenceAt(fnOut.out[k], fnIn.list,
                                 {i \in DOMAIN fnIn.list : fnIn.list[i].device_id.val = k})

C10_Witness ==
    /\ fn = "parse_events"
    /\ fnOut # None
    /\ WellFormedEvents(fnIn)
    /\ Len(fnIn.list) = 5
    /\ Cardinality(DOMAIN fnOut.out) = 3
    /\ Len(fnOut.out["1"]) = 2
    /\ Len(fnOut.out["2"]) = 2
    /\ fnOut.out["2"] = <<fnIn.list[2], fnIn.list[5]>>

-----------------------------------------------------------------------------
(* C11, as stated: a device is judged actionable exactly when its          *)
(* capability list holds a capability named open_door whose enabled flag   *)
(* is true.                                                                *)
C11_ActionableIffEnabled ==
    (fn = "is_valid_intercom" /\ fnOut # None
        /\ fnIn.device_type \in {"intercom", "gate"})
        => (fnOut.out
              <=> \E i \in DOMAIN fnIn.capabilities :
                     /\ fnIn.capabilities[i].name = "open_door"
                     /\ fnIn.capabilities[i].enabled = "True")

(* C11, amended: a device of type intercom or gate is judged actionable    *)
(* exactly when its capability list holds a capability named open_door     *)
(* whose setup field is the value True; the enabled field plays no part,   *)
(* and a device of another type is never judged actionable.                *)
C11_ActionableIffSetup ==
    (fn = "is_valid_intercom" /\ fnOut # None)
        => (fnOut.out
              <=> /\ fnIn.device_type \in {"intercom", "gate"}
                  /\ \E c \in Elements(fnIn.capabilities) :
                        c.name = "open_door" /\ c.setup = "True")

C11_Witness ==
    /\ fn = "is_valid_intercom"
    /\ fnOut # None
    /\ fnIn.device_type = "gate"
    /\ fnIn.capabilities = <<Cap("call", "True", "True"), Cap("open_door", "True", "False")>>
    /\ fnOut.out = TRUE

-----------------------------------------------------------------------------
(* Vocabulary of the properties of the buttons *)

\* a step in which async_press of button b ends
PressEnds(b) == pressPc[b] = "posting" /\ pressPc'[b] = "idle"

OpenAnswered200(resp) == resp.net = "ok" /\ resp.status = 200

C13_SuccessRequestsRefresh ==
    [][ /\ \A b \in ButtonIds :
              PressEnds(b)
                => refresh_requested' = (refresh_requested \/ OpenAnswered200(openResp'))
        /\ (refresh_requested' /\ ~refresh_requested)
              => \E b \in ButtonIds : PressEnds(b) /\ OpenAnswered200(openResp')
        /\ (refresh_requested /\ ~refresh_requested')
              => (pc = "idle" /\ pc' = "fetch_devices" /\ cycle' = cycle + 1) ]_vars

C13_Witness ==
    /\ refresh_requested
    /\ pressLog.event = "sent"
    /\ openResp.net = "ok" /\ openResp.status = 200
    /\ pc = "fetch_events"

-----------------------------------------------------------------------------
\* the device exchange answered 200 with a body that decodes to something
\* other than a mapping
NonMappingBody(resp) ==
    resp.net = "ok" /\ resp.status = 200 /\ resp.body.top = "other"

\* the device exchange answered 200 with a mapping that carries no device
\* list: no "data", a "data" that is no mapping, no "devices", or a
\* "devices" that is no list
MappingWithoutList(resp) ==
    resp.net = "ok" /\ resp.status = 200 /\ resp.body.top = "dict" /\ ~HasList(resp.body)

\* the step ends the cycle the way a network error ends it
EndsLikeNetworkError ==
    /\ pc' = "idle"
    /\ evParams' = None
    /\ last_successful_data' = last_successful_data
    /\ IF last_successful_data # None
       THEN outcome' = "returned" /\ data' = last_successful_data
       ELSE outcome' = "UpdateFailed" /\ data' = data

(* C14: a cycle whose device request is answered 200 with a body that is   *)
(* no mapping ends as a cycle whose device request failed in the network   *)
(* ends: it issues no event request, returns the retained snapshot when    *)
(* there is one and raises UpdateFailed otherwise, and replaces neither    *)
(* coordinator.data nor the retained snapshot by a new snapshot.           *)
C14_NonMappingBodyHardFails ==
    [][ /\ (DeviceStep /\ NonMappingBody(devResp')) => EndsLikeNetworkError
        /\ (DeviceStep /\ devResp'.net = "ClientError") => EndsLikeNetworkError ]_vars

C14_Witness ==
    /\ pc = "idle"
    /\ cycle = 2
    /\ NonMappingBody(devResp)
    /\ outcome = "returned"
    /\ data # None
    /\ data.ref = 1
    /\ data.devices # <<>>

\* the step publishes a new snapshot without devices and without events
PublishesEmptySnapshot ==
    /\ pc' = "idle"
    /\ outcome' = "returned"
    /\ data' = [devices |-> <<>>, events |-> EmptyMap, ref |-> cycle]
    /\ last_successful_data' = data'

(* C15 as stated: a cycle whose device request is answered 200 with a body *)
(* that is no mapping, or with a mapping that carries no device list,      *)
(* completes as a success and publishes a snapshot with no devices.        *)
C15_MalformedBodyPublishesEmpty ==
    [][ (DeviceStep /\ (NonMappingBody(devResp') \/ MappingWithoutList(devResp')))
          => PublishesEmptySnapshot ]_vars

(* C15, amended: a cycle whose device request is answered 200 with a       *)
(* mapping that carries no device list completes as a success and          *)
(* publishes a snapshot with no devices and no events; the device fetch    *)
(* fails, and the cycle publishes no new snapshot, exactly when the        *)
(* exchange fails in the network, times out, is answered with any status   *)
(* other than 200, or is answered 200 with a body that is no mapping.      *)
C15_MappingWithoutListPublishesEmpty ==
    [][ /\ (DeviceStep /\ MappingWithoutList(devResp')) => PublishesEmptySnapshot
        /\ DeviceStep
             => (DeviceFetchHardFails(devResp')
                   <=> /\ pc' = "idle"
                       /\ last_successful_data' = last_successful_data
                       /\ outcome' \in {"returned", "UpdateFailed"}
                       /\ (outcome' = "returned" => data' = last_successful_data)) ]_vars

C15_Witness ==
    /\ pc = "idle"
    /\ cycle = 2
    /\ MappingWithoutList(devResp)
    /\ outcome = "returned"
    /\ data = [devices |-> <<>>, events |-> EmptyMap, ref |-> 2]
    /\ last_successful_data = data

-----------------------------------------------------------------------------
\* the ways a cycle ends
PublishedNew ==
    /\ outcome = "returned"
    /\ data # None
    /\ data.ref = cycle
    /\ last_successful_data = data

RepublishedRetained ==
    /\ outcome = "returned"
    /\ data # None
    /\ data.ref < cycle
    /\ last_successful_data = data

ReportedFailure == outcome = "UpdateFailed"

ExactlyOneOutcome ==
    /\ PublishedNew \/ RepublishedRetained \/ ReportedFailure
    /\ ~(PublishedNew /\ RepublishedRetained)
    /\ ~(PublishedNew /\ ReportedFailure)
    /\ ~(RepublishedRetained /\ ReportedFailure)

(* C16: every started cycle eventually ends, and a cycle that the host     *)
(* does not cancel ends in exactly one of three ways: it publishes a new   *)
(* snapshot, it returns the retained snapshot, or it raises UpdateFailed.  *)
(* No cycle stays in the device fetch or in the event fetch forever.       *)
C16_CycleTerminates ==
    (pc # "idle") ~> (pc = "idle" /\ (outcome = "CancelledError" \/ ExactlyOneOutcome))

C16_Witness ==
    /\ pc = "idle"
    /\ cycle = 3
    /\ evResp.net = "TimeoutError"
    /\ PublishedNew

-----------------------------------------------------------------------------
\* the device list carried by the body of a device response
ListOf(resp) == IF HasList(resp.body) THEN resp.body.list ELSE <<>>

\* the positions, in the device list of a response, of the intercoms and
\* gates that carry a non-empty id
Queryable(resp) ==
    {i \in DOMAIN ListOf(resp) :
        /\ IsIntercomOrGate(ListOf(resp)[i])
        /\ Truthy(ListOf(resp)[i].id)}

\* ids holds the ids of the devices at the positions Q of list, as strings,
\* one per device and in the order of the list
IdsOfPositions(ids, list, Q) ==
    /\ Len(ids) = Cardinality(Q)
    /\ \A i \in Q : ids[Cardinality({j \in Q : j <= i})] = list[i].id.val

(* C17: in every cycle the event request is issued only after the device   *)
(* exchange of that cycle has answered 200 with a mapping, while the       *)
(* device exchange is pending no event request exists, the request names   *)
(* exactly the ids of the intercoms and gates with a non-empty id in the   *)
(* device list of that response, in order, and a cycle whose device fetch  *)
(* failed issues no event request and receives no event response.          *)
C17_EventsAfterDevices ==
    /\ pc = "fetch_devices" => (devResp.net = "none" /\ evParams = None /\ evResp.net = "none")
    /\ pc = "fetch_events" => (evParams # None /\ evResp.net = "none")
    /\ evResp.net # "none" => evParams # None
    /\ evParams # None
         => /\ DeviceFetchSucceeds(devResp)
            /\ Queryable(devResp) # {}
            /\ IdsOfPositions(evParams.device_ids, ListOf(devResp), Queryable(devResp))
    /\ DeviceFetchHardFails(devResp) => (evParams = None /\ evResp.net = "none")

C17_Witness ==
    /\ pc = "fetch_events"
    /\ cycle = 2
    /\ Len(ListOf(devResp)) = 2
    /\ evParams # None
    /\ evParams.device_ids = <<"1">>
    /\ last_successful_data # None
    /\ last_successful_data.devices = <<>>

-----------------------------------------------------------------------------
\* a step in which the running cycle ends by returning a snapshot
CycleReturns == pc # "idle" /\ pc' = "idle" /\ outcome' = "returned"

(* C18: coordinator.data and the retained snapshot are always the same     *)
(* object (or both undefined), so one snapshot at most is kept.  A cycle   *)
(* that returns after a successful device fetch replaces both by the       *)
(* snapshot it built, whatever the cycles before it did; a cycle that      *)
(* returns after a failed device fetch leaves both as they were.           *)
C18_CurrentIsRetained ==
    [][ /\ data' = last_successful_data'
        /\ (CycleReturns /\ DeviceFetchSucceeds(devResp'))
             => /\ data' # None
                /\ data'.ref = cycle
                /\ data'.devices = devices'
                /\ data' # data
        /\ (CycleReturns /\ ~DeviceFetchSucceeds(devResp'))
             => /\ data' # None
                /\ data' = data
                /\ last_successful_data' = last_successful_data ]_vars

C18_Witness ==
    /\ pc = "idle"
    /\ cycle = 3
    /\ outcome = "returned"
    /\ DeviceFetchSucceeds(devResp)
    /\ data # None
    /\ data.ref = 3
    /\ data.devices = <<>>
    /\ last_successful_data = data

-----------------------------------------------------------------------------
\* the ids, as strings, of the devices of a snapshot
DeviceIdsOf(snapshot) == {Str(snapshot.devices[i].id) : i \in DOMAIN snapshot.devices}

\* the event is a mapping with a device id that no device of the snapshot has
OfUnknownDevice(event, snapshot) ==
    IsEvent(event) /\ Str(event.device_id) \notin DeviceIdsOf(snapshot)

(* C19: the snapshot published by a cycle whose event request is answered  *)
(* 200 with a mapping holds every event of that response that is a mapping *)
(* with a device id, under the string of its device id, whether or not a   *)
(* device of the snapshot has that id.                                     *)
C19_UnknownDeviceEventsKept ==
    (pc = "idle" /\ outcome = "returned" /\ EventFetchWellFormed(evResp))
        => \A i \in DOMAIN ListOf(evResp) :
              IsEvent(ListOf(evResp)[i])
                => /\ Str(ListOf(evResp)[i].device_id) \in DOMAIN data.events
                   /\ ListOf(evResp)[i] \in Elements(data.events[Str(ListOf(evResp)[i].device_id)])

C19_Witness ==
    /\ pc = "idle"
    /\ outcome = "returned"
    /\ EventFetchWellFormed(evResp)
    /\ \E i \in DOMAIN ListOf(evResp) : OfUnknownDevice(ListOf(evResp)[i], data)
    /\ "9" \in DOMAIN data.events
    /\ "9" \notin DeviceIdsOf(data)

-----------------------------------------------------------------------------
\* the device list of the retained snapshot, empty when none is retained
RetainedDevices ==
    IF last_successful_data = None THEN <<>> ELSE last_successful_data.devices

(* C20 as stated: whenever no cycle is in flight, self.devices is the      *)
(* device list of the retained snapshot, or empty when none is retained.   *)
C20_DevicesAreRetainedDevices ==
    pc = "idle" => devices = RetainedDevices

(* C20, amended: self.devices is assigned only when a device fetch         *)
(* succeeds, and then holds the intercoms and gates of that response.      *)
(* Whenever no cycle is in flight it is the device list of the retained    *)
(* snapshot (empty when none is retained), unless a cycle has been         *)
(* cancelled during its event fetch since the last publication: then it    *)
(* holds the devices of that cycle, which published nothing.               *)
C20_DevicesOfLastSuccessfulFetch ==
    [][ /\ devices' # devices
             => (pc = "fetch_devices" /\ DeviceFetchSucceeds(devResp'))
        /\ (pc = "fetch_devices" /\ DeviceFetchSucceeds(devResp'))
             => devices' = SelectSeq(ListOf(devResp'), IsIntercomOrGate)
        /\ (pc' = "idle" /\ ~unpublished')
             => devices' = IF last_successful_data' = None
                           THEN <<>>
                           ELSE last_successful_data'.devices
        /\ (unpublished' /\ ~unpublished)
             => (pc = "fetch_events" /\ outcome' = "CancelledError") ]_vars

C20_Witness ==
    /\ pc = "idle"
    /\ cycle = 2
    /\ outcome = "CancelledError"
    /\ unpublished
    /\ last_successful_data # None
    /\ devices # last_successful_data.devices
    /\ devices = SelectSeq(ListOf(devResp), IsIntercomOrGate)

-----------------------------------------------------------------------------
(* C21: no step makes coordinator.data undefined once it is defined,       *)
(* whatever the later cycles do (fail in the network, time out, be         *)
(* answered with an error status or a malformed body, be cancelled), and   *)
(* a button with a device id that is available stays available, during    *)
(* and after presses as well.                                              *)
C21_DataStaysDefined ==
    [][ /\ data # None => data' # None
        /\ entities.set_up => entities' = entities
        /\ \A b \in entities.ids :
              available(b) => (b \in entities'.ids /\ b.kind # "none" /\ data' # None) ]_vars

C21_Witness ==
    /\ pc = "idle"
    /\ cycle = 3
    /\ devResp.net = "ClientError"
    /\ outcome = "returned"
    /\ data # None
    /\ data.ref = 1
    /\ StrId("1") \in entities.ids
    /\ available(StrId("1"))
    /\ pressLog.event = "client_error"

-----------------------------------------------------------------------------
\* the POST of the open command failed in the network or timed out
OpenFailed(resp) == resp.net \in {"ClientError", "TimeoutError"}

(* C22: a press whose POST fails in the network or times out ends without  *)
(* raising: it logs an error, requests no refresh and leaves               *)
(* coordinator.data and the retained snapshot as they were.                *)
C22_OpenErrorAbsorbed ==
    [][ \A b \in ButtonIds :
          (PressEnds(b) /\ OpenFailed(openResp'))
            => /\ pressLog'.level = "error"
               /\ refresh_requested' = refresh_requested
               /\ data' = data
               /\ last_successful_data' = last_successful_data ]_vars

-----------------------------------------------------------------------------
(* C23: the coordinator is put into hass.data[DOMAIN] only in the step     *)
(* that follows a first cycle that returned a snapshot, the platforms are  *)
(* set up only for a registered coordinator, and a registered coordinator  *)
(* always has a defined coordinator.data, so the button platform finds     *)
(* one at its setup; after a first cycle that raised or was cancelled      *)
(* nothing is registered and no platform is set up.                        *)
C23_RegisteredAfterFirstRefresh ==
    [][ /\ (entities'.registered /\ ~entities.registered)
             => /\ pc = "idle" /\ cycle = 1 /\ outcome = "returned"
                /\ data # None
                /\ data.ref = 1
        /\ (entities'.set_up /\ ~entities.set_up)
             => (entities.registered /\ data # None)
        /\ entities'.registered => data' # None
        /\ entities'.set_up => entities'.registered
        /\ (cycle' >= 1 /\ pc' = "idle" /\ data' = None)
             => (~entities'.registered /\ ~entities'.set_up /\ entities'.ids = {}) ]_vars

C23_Witness ==
    /\ entities.registered
    /\ entities.set_up
    /\ entities.ids # {}
    /\ cycle = 1
    /\ data # None
    /\ data.ref = 1

-----------------------------------------------------------------------------
\* the event list carried by a body, empty when the body carries none
EventList(body) == IF HasList(body) THEN body.list ELSE <<>>

\* the positions of the events of a body that are mappings with a
\* non-empty device id
KeptPositions(body) == {i \in DOMAIN EventList(body) : IsEvent(EventList(body)[i])}

\* the places of a mapping of sequences: one for every event it holds
Places(map) == UNION {{<<k, n>> : n \in DOMAIN map[k]} : k \in DOMAIN map}

(* C24: for every body, the mapping returned by _parse_events holds as     *)
(* many events as the body has mappings with a non-empty device id; its    *)
(* keys are the strings of the device ids of those events, so that a       *)
(* number and a string with the same digits share a key; every key holds   *)
(* exactly the events with that id string, in the order of the body, and   *)
(* none is empty; elements that are no mappings or have no device id       *)
(* appear under no key.                                                    *)
C24_ParseEventsPartitions ==
    (fn = "parse_events" /\ fnOut # None)
        => /\ Cardinality(Places(fnOut.out)) = Cardinality(KeptPositions(fnIn))
           /\ DOMAIN fnOut.out
                 = {EventList(fnIn)[i].device_id.val : i \in KeptPositions(fnIn)}
           /\ \A k \in DOMAIN fnOut.out :
                 /\ fnOut.out[k] # <<>>
                 /\ \A n \in DOMAIN fnOut.out[k] : IsEvent(fnOut.out[k][n])
                 /\ IsSubsequenceAt(fnOut.out[k], EventList(fnIn),
                                    {i \in KeptPositions(fnIn) :
                                        EventList(fnIn)[i].device_id.val = k})

C24_Witness ==
    /\ fn = "parse_events"
    /\ fnOut # None
    /\ HasList(fnIn)
    /\ fnIn.list = <<Ev(IntId("1"), 2), Ev(NoId, 5), NotAnEvent, Ev(StrId("1"), 1),
                     Ev(IntId("0"), 6)>>
    /\ DOMAIN fnOut.out = {"1"}
    /\ fnOut.out["1"] = <<Ev(IntId("1"), 2), Ev(StrId("1"), 1)>>

====
